---- MODULE Spec2Model ----
(***************************************************************************)
(* Model of LogViewer-v11.3.py: JSON / JSON-Lines ingestion (load_json),   *)
(* the per-file cache raw_data_cache, the tabs table of per-file state,    *)
(* the table view (tree) and the manual and periodic refresh loops.        *)
(*                                                                         *)
(* Text is modelled as sequences of one-character strings.  A file is a    *)
(* sequence of lines; a line is a token that stands for its text:          *)
(*   rec    {"severity": .., "id": .., "source_info": {"ip": ..}}          *)
(*   num    42                  (valid JSON, not a mapping)                *)
(*   arr    [ {..}, {..} ]      (a JSON array on one line)                 *)
(*   open   [                   (first line of a pretty-printed array)     *)
(*   recc   {..},               (array element followed by a comma)        *)
(*   close  ]                                                              *)
(*   bad    text that is not JSON                                          *)
(*   blank  empty or whitespace-only line                                  *)
(***************************************************************************)
EXTENDS Integers, Sequences, FiniteSets, TLC

\* ------------------------------------------------------------------ bounds
MaxLines == 3
MaxChanges == 2
\* key-value pairs in a record given to flatten_dict, all levels counted
MaxItems == 3
\* records in the data given to filter_data
MaxRecords == 2

\* ------------------------------------------------------- program constants
Paths == {"f1", "f2"}
\* the Tk main thread and the threads periodic_refresh can start
Main == "main"
Periodic == {"t1", "t2"}
Threads == {Main} \cup Periodic

K_severity == <<"s", "e", "v">>
K_id == <<"i", "d">>
K_source_info == <<"s", "r", "c">>
K_ip == <<"i", "p">>

desired_columns == <<K_source_info \o <<".">> \o K_ip, K_severity, K_id>>

High == <<"H", "i", "g", "h">>
low == <<"l", "o", "w">>
Sevs == {High, low}
FilterTexts == {<< >>, <<"H", "I">>}

\* ------------------------------------------------------------- JSON values
JStr(s) == [t |-> "str", v |-> s]
JInt(n) == [t |-> "int", v |-> n]
JList(xs) == [t |-> "list", v |-> xs]
\* a mapping is the sequence of its <<key, value>> items, in insertion order
JDict(kv) == [t |-> "dict", v |-> kv]

isinstance_dict(x) == x.t = "dict"
isinstance_list(x) == x.t = "list"

Record(id, sev) ==
    JDict(<< <<K_severity, JStr(sev)>>,
             <<K_id, JInt(id)>>,
             <<K_source_info, JDict(<< <<K_ip, JStr(<<"1">>)>> >>)>> >>)

\* ------------------------------------------------------------- line tokens
RecLine(id, sev) == [kind |-> "rec", id |-> id, sev |-> sev, items |-> << >>]
RecCommaLine(id, sev) == [kind |-> "recc", id |-> id, sev |-> sev, items |-> << >>]
ArrLine(items) == [kind |-> "arr", id |-> 0, sev |-> << >>, items |-> items]
Plain(k) == [kind |-> k, id |-> 0, sev |-> << >>, items |-> << >>]
BadLine == Plain("bad")
BlankLine == Plain("blank")
NumLine == Plain("num")
OpenLine == Plain("open")
CloseLine == Plain("close")

\* ---------------------------------------------------------- seq utilities
IsPrefix(s, u) == Len(s) <= Len(u) /\ SubSeq(u, 1, Len(s)) = s

Range(s) == {s[i] : i \in 1..Len(s)}

\* str.strip() on a line: true when nothing is left
IsBlank(line) == line.kind = "blank"

\* content = f.read().strip(); lines = content.splitlines()
\* leading and trailing whitespace-only lines disappear with the strip
RECURSIVE DropLeadingBlank(_)
DropLeadingBlank(ls) ==
    IF ls = << >> THEN << >>
    ELSE IF IsBlank(Head(ls)) THEN DropLeadingBlank(Tail(ls))
    ELSE ls

RECURSIVE DropTrailingBlank(_)
DropTrailingBlank(ls) ==
    IF ls = << >> THEN << >>
    ELSE IF IsBlank(ls[Len(ls)]) THEN DropTrailingBlank(SubSeq(ls, 1, Len(ls) - 1))
    ELSE ls

StripSplitLines(raw) == DropTrailingBlank(DropLeadingBlank(raw))

\* SliceFrom starting one line early
SliceFrom_early(ls, n) == SubSeq(ls, n, Len(ls))

\* lines[n:] of Python
SliceFrom(ls, n) == SubSeq(ls, n + 1, Len(ls))

\* ------------------------------------------------------------- json.loads
\* json.loads of one line: [ok |-> FALSE] is json.JSONDecodeError
DecodeError == [ok |-> FALSE, val |-> JInt(0)]
Decoded(v) == [ok |-> TRUE, val |-> v]

json_loads_line(line) ==
    CASE line.kind = "rec" -> Decoded(Record(line.id, line.sev))
      [] line.kind = "num" -> Decoded(JInt(42))
      [] line.kind = "arr" -> Decoded(JList(line.items))
      [] OTHER -> DecodeError

RECURSIVE NonBlank(_)
NonBlank(ls) ==
    IF ls = << >> THEN << >>
    ELSE (IF IsBlank(Head(ls)) THEN << >> ELSE <<Head(ls)>>) \o NonBlank(Tail(ls))

\* the elements of a pretty-printed array: every line but the last ends in a
\* comma, the last does not
ArrayBody(mid) ==
    /\ \A i \in 1..Len(mid) :
          IF i < Len(mid) THEN mid[i].kind = "recc"
          ELSE mid[i].kind \in {"rec", "num", "arr"}

ElementOf(line) ==
    IF line.kind = "recc" THEN Record(line.id, line.sev)
    ELSE json_loads_line(line).val

\* json.loads of the whole (stripped) content
json_loads_content(lines) ==
    LET nb == NonBlank(lines) IN
    IF Len(nb) = 1 THEN json_loads_line(nb[1])
    ELSE IF /\ Len(nb) >= 2
            /\ nb[1].kind = "open"
            /\ nb[Len(nb)].kind = "close"
            /\ ArrayBody(SubSeq(nb, 2, Len(nb) - 1))
         THEN Decoded(JList([i \in 1..(Len(nb) - 2) |-> ElementOf(nb[i + 1])]))
         ELSE DecodeError

\* ParseLines skipping a line that does not decode
RECURSIVE ParseLines_skip(_)
ParseLines_skip(ls) ==
    IF ls = << >> THEN [ok |-> TRUE, data |-> << >>]
    ELSE LET rest == ParseLines_skip(Tail(ls))
             item == json_loads_line(Head(ls))
         IN  IF item.ok /\ isinstance_dict(item.val)
             THEN [ok |-> TRUE, data |-> <<item.val>> \o rest.data]
             ELSE rest

\* the per-line loop of load_json (lines 48-53 and 81-86): blank lines are
\* skipped, a line that does not decode raises, a value that is not a mapping
\* is dropped
RECURSIVE ParseLines(_)
ParseLines(ls) ==
    IF ls = << >> THEN [ok |-> TRUE, data |-> << >>]
    ELSE LET rest == ParseLines(Tail(ls))
             line == Head(ls)
             item == json_loads_line(line)
         IN  IF IsBlank(line) THEN rest
             ELSE IF ~item.ok THEN [ok |-> FALSE, data |-> << >>]
             ELSE IF ~rest.ok THEN rest
             ELSE IF isinstance_dict(item.val)
                  THEN [ok |-> TRUE, data |-> <<item.val>> \o rest.data]
                  ELSE rest

\* ------------------------------------------------------------ flatten_dict
HasKey(kv, k) == \E i \in 1..Len(kv) : kv[i][1] = k

\* d[k] = v on a mapping: a present key keeps its position
Put(kv, k, v) ==
    IF HasKey(kv, k)
    THEN [i \in 1..Len(kv) |-> IF kv[i][1] = k THEN <<k, v>> ELSE kv[i]]
    ELSE Append(kv, <<k, v>>)

\* dict(items)
RECURSIVE DictFromItems(_)
DictFromItems(items) ==
    IF items = << >> THEN << >>
    ELSE LET n == Len(items)
         IN  Put(DictFromItems(SubSeq(items, 1, n - 1)), items[n][1], items[n][2])

\* new_key = f"{parent_key}{sep}{k}" if parent_key else k
NewKey(parent_key, k) ==
    IF parent_key /= << >> THEN parent_key \o <<".">> \o k ELSE k

RECURSIVE FlattenItems(_, _)
FlattenItems(kv, parent_key) ==
    IF kv = << >> THEN << >>
    ELSE LET k == Head(kv)[1]
             v == Head(kv)[2]
             new_key == NewKey(parent_key, k)
         IN  (IF isinstance_dict(v)
              THEN DictFromItems(FlattenItems(v.v, new_key))
              ELSE << <<new_key, v>> >>)
             \o FlattenItems(Tail(kv), parent_key)

flatten_dict(d) == JDict(DictFromItems(FlattenItems(d.v, << >>)))

\* ------------------------------------------------------------- filter_data
DigitChar == <<"0", "1", "2", "3", "4", "5", "6", "7", "8", "9">>

\* str(n) for a natural number
RECURSIVE StrInt(_)
StrInt(n) ==
    IF n < 10 THEN <<DigitChar[n + 1]>>
    ELSE StrInt(n \div 10) \o <<DigitChar[(n % 10) + 1]>>

\* str(value) for the values a flattened record holds
py_str(x) ==
    CASE x.t = "str" -> x.v
      [] x.t = "int" -> StrInt(x.v)

LowerChar(c) ==
    CASE c = "H" -> "h"
      [] c = "I" -> "i"
      [] c = "L" -> "l"
      [] c = "O" -> "o"
      [] c = "W" -> "w"
      [] c = "G" -> "g"
      [] OTHER -> c

\* lower leaving the case as it is
lower_same(s) == s

lower(s) == [i \in 1..Len(s) |-> LowerChar(s[i])]

\* sub in s
Contains(sub, s) ==
    \E i \in 0..(Len(s) - Len(sub)) : SubSeq(s, i + 1, i + Len(sub)) = sub

\* item.get(col, '')
get(item, col) ==
    IF HasKey(item.v, col)
    THEN (item.v[CHOOSE i \in 1..Len(item.v) : item.v[i][1] = col])[2]
    ELSE JStr(<< >>)

Matches(item, filters) ==
    \A col \in DOMAIN filters :
        filters[col] /= << >> =>
            Contains(lower(filters[col]), lower(py_str(get(item, col))))

RECURSIVE filter_data(_, _)
filter_data(data, filters) ==
    IF data = << >> THEN << >>
    ELSE (IF Matches(Head(data), filters) THEN <<Head(data)>> ELSE << >>)
         \o filter_data(Tail(data), filters)

DigitValue(c) == CHOOSE n \in 0..9 : DigitChar[n + 1] = c

\* int(s) for a string of decimal digits
RECURSIVE py_int(_)
py_int(s) ==
    IF Len(s) = 1 THEN DigitValue(s[1])
    ELSE 10 * py_int(SubSeq(s, 1, Len(s) - 1)) + DigitValue(s[Len(s)])

\* values = [str(idx)] + [str(item.get(col, '')) for col in desired_columns]
RowValues(idx, item) ==
    <<StrInt(idx)>> \o
    [i \in 1..Len(desired_columns) |-> py_str(get(item, desired_columns[i]))]

\* the rows inserted for filtered_data, numbered from start_idx
Rows(filtered_data, start_idx) ==
    [i \in 1..Len(filtered_data) |-> RowValues(start_idx + i - 1, filtered_data[i])]

NoFilters == [i \in Range(desired_columns) |-> << >>]

\* ------------------------------------------------------------------- state
VARIABLES
    file,                \* path -> the lines of the file on disk
    readable,            \* path -> open(file_path, 'r') succeeds
    nextId,              \* id of the next record the log writer emits
    changes,             \* number of changes made to the files so far
    raw_data_cache,      \* path -> cached records; only loaded paths are keys
    tabs,                \* path -> (last_manual_sync, last_auto_sync, record_count)
    tab_order,           \* the keys of tabs in insertion order
    tab_filters,         \* path -> the filters dict of the tab
    tree,                \* path -> the rows of the tab's Treeview
    error_label,         \* path -> the status text of the tab
    showerror,           \* path -> the messagebox the latest refresh_table call
                         \* for the path raised: "none", or the kind of refresh
    countdown,           \* periodic thread -> the countdown thread its run()
                         \* started: pc, and the dict iterator of its for loop
    call,                \* a call of flatten_dict or filter_data on its own:
                         \* the arguments and what came back
    refresh_interval_ms,
    refresh_thread,      \* the thread periodic_refresh started last, or "None"
    started,             \* main() has reached root.mainloop()
    th                   \* thread -> position and locals: pc, snap (the entries
                         \* of list(tabs.items()) still to do, the current one
                         \* first), res (what load_json returned), interval_ms;
                         \* all and done record the paths of the cycle and those
                         \* attempted, stored the count tabs held for the path
                         \* when refresh_table was entered

vars == <<file, readable, nextId, changes, raw_data_cache, tabs, tab_order, tab_filters,
          tree, error_label, showerror, countdown, call, refresh_interval_ms,
          refresh_thread, started, th>>

env_vars == <<file, readable, nextId, changes>>
ui_vars == <<tabs, tab_order, tab_filters, tree, error_label, showerror>>
fn_vars == <<countdown, call>>

\* --------------------------------------------------------------- load_json
\* raw_data_cache[file_path] = data
CacheAssign(cache, file_path, data) ==
    [q \in (DOMAIN cache) \cup {file_path} |->
        IF q = file_path THEN data ELSE cache[q]]

\* raw_data_cache[file_path].extend(data), or the assignment when absent
CacheExtend(cache, file_path, data) ==
    IF file_path \in DOMAIN cache
    THEN [cache EXCEPT ![file_path] = @ \o data]
    ELSE CacheAssign(cache, file_path, data)

\* the ValueError raised at line 96
LoadFailed == [ok |-> FALSE, data |-> << >>, total |-> 0, cache |-> raw_data_cache]

\* Loaded returning the number of records in place of the number of lines
Loaded_count(data, total, cache) == [ok |-> TRUE, data |-> data, total |-> Len(data), cache |-> cache]

Loaded(data, total, cache) == [ok |-> TRUE, data |-> data, total |-> total, cache |-> cache]

\* lines 44-61
PartialLoad(file_path, lines, last_record_count) ==
    LET new_lines == SliceFrom(lines, last_record_count)
        r == ParseLines(new_lines)
    IN  IF ~r.ok THEN LoadFailed
        ELSE Loaded(r.data, Len(lines), CacheExtend(raw_data_cache, file_path, r.data))

\* lines 63-93
FullLoad(file_path, lines) ==
    LET doc == json_loads_content(lines) IN
    IF doc.ok
    THEN LET data == IF isinstance_list(doc.val) THEN doc.val.v ELSE <<doc.val>>
         IN  IF ~isinstance_list(doc.val) /\ ~isinstance_dict(doc.val) THEN LoadFailed
             ELSE IF \E i \in 1..Len(data) : ~isinstance_dict(data[i]) THEN LoadFailed
             ELSE Loaded(data, Len(lines), CacheAssign(raw_data_cache, file_path, data))
    ELSE LET r == ParseLines(lines)
         IN  IF ~r.ok THEN LoadFailed
             ELSE IF r.data = << >> THEN LoadFailed
             ELSE Loaded(r.data, Len(lines), CacheAssign(raw_data_cache, file_path, r.data))

load_json(file_path, last_record_count, partial_load) ==
    IF ~readable[file_path] THEN LoadFailed
    ELSE LET lines == StripSplitLines(file[file_path])
         IN  IF partial_load /\ last_record_count > 0
             THEN PartialLoad(file_path, lines, last_record_count)
             ELSE FullLoad(file_path, lines)

\* ----------------------------------------------------------- refresh_table
\* what refresh_table does with the result of load_json (lines 175-256); the
\* value holds the new rows and status text and the triple it returns
RefreshOutcome(is_auto_refresh, res, view, flt, last_manual_sync, last_auto_sync, record_count) ==
    IF ~res.ok
    THEN [tree |-> view, label |-> "error", modal |-> TRUE,
          last_manual_sync |-> last_manual_sync, last_auto_sync |-> last_auto_sync,
          record_count |-> record_count]
    ELSE IF res.data = << >> /\ ~is_auto_refresh
    THEN [tree |-> view, label |-> "nodata", modal |-> FALSE,
          last_manual_sync |-> last_manual_sync, last_auto_sync |-> last_auto_sync,
          record_count |-> record_count]
    ELSE LET flattened_data == [i \in 1..Len(res.data) |-> flatten_dict(res.data[i])]
             filtered_data == filter_data(flattened_data, flt)
             start_idx == IF is_auto_refresh THEN Len(view) + 1 ELSE 1
             kept == IF is_auto_refresh THEN view ELSE << >>
         IN  [tree |-> kept \o Rows(filtered_data, start_idx),
              label |-> "ok", modal |-> FALSE,
              last_manual_sync |-> IF is_auto_refresh THEN last_manual_sync ELSE TRUE,
              last_auto_sync |-> IF is_auto_refresh THEN TRUE ELSE last_auto_sync,
              record_count |-> res.total]

\* messagebox.showerror (line 254) as the state of the path's tab
Raised(is_auto_refresh, o) ==
    IF o.modal THEN (IF is_auto_refresh THEN "auto" ELSE "manual") ELSE "none"

TabEntry(o) ==
    [last_manual_sync |-> o.last_manual_sync, last_auto_sync |-> o.last_auto_sync,
     record_count |-> o.record_count]

\* tabs[file_path] = (...)
TabsAssign(tb, file_path, entry) ==
    [q \in (DOMAIN tb) \cup {file_path} |-> IF q = file_path THEN entry ELSE tb[q]]

\* list(tabs.items()): the tuples are copied when the loop starts
Snapshot ==
    [i \in 1..Len(tab_order) |->
        [path |-> tab_order[i],
         last_manual_sync |-> tabs[tab_order[i]].last_manual_sync,
         last_auto_sync |-> tabs[tab_order[i]].last_auto_sync,
         record_count |-> tabs[tab_order[i]].record_count]]

SnapPaths(snap) == [i \in 1..Len(snap) |-> snap[i].path]

NoRes == [ok |-> FALSE, data |-> << >>, total |-> 0]

\* a countdown thread: used is the size of tabs when its for loop created the
\* dict iterator, pos the number of entries the loop has taken from it
CountdownInit == [pc |-> "off", used |-> 0, pos |-> 0]

\* no call of a function on its own is under way
NoCall == [fn |-> "none", d |-> << >>, filters |-> << >>, out |-> << >>, again |-> << >>, n |-> 0]

ThreadInit(pc) ==
    [pc |-> pc, snap |-> << >>, res |-> NoRes, done |-> << >>, all |-> << >>,
     stored |-> 0, interval_ms |-> 0]

\* -------------------------------------------------------------------- Init
\* what a log file may hold when the viewer starts
InitialFiles ==
    {<<RecLine(1, High)>>,
     <<RecLine(1, High), RecLine(2, low)>>}

\* the state when main() starts: no tab, no cache entry, no refresh thread;
\* the files of the paths in P exist with some content
ProgramInit(P) ==
    /\ file \in {f \in [Paths -> InitialFiles \cup {<< >>}] :
                    \A p \in Paths : IF p \in P THEN f[p] \in InitialFiles ELSE f[p] = << >>}
    /\ readable = [p \in Paths |-> TRUE]
    /\ nextId = 3
    /\ changes = 0
    /\ raw_data_cache = [p \in {} |-> << >>]
    /\ tabs = [p \in {} |-> << >>]
    /\ tab_order = << >>
    /\ tab_filters = [p \in Paths |-> NoFilters]
    /\ tree = [p \in Paths |-> << >>]
    /\ error_label = [p \in Paths |-> ""]
    /\ showerror = [p \in Paths |-> "none"]
    /\ countdown = [t \in Periodic |-> CountdownInit]
    /\ refresh_interval_ms = 3600000
    /\ refresh_thread = "None"
    /\ started = FALSE
    /\ th = [t \in Threads |-> ThreadInit(IF t = Main THEN "idle" ELSE "off")]

InitFor(P) == ProgramInit(P) /\ call = NoCall

\* ------------------------------------------------- the log writer (files)
SevOf(id) == IF id % 2 = 1 THEN High ELSE low

\* the lines something outside the viewer may append to a log file
NewLines == {RecLine(nextId, SevOf(nextId)), BadLine, BlankLine, NumLine}

\* whole documents a file may be replaced by
NewDocuments ==
    {<<ArrLine(<< >>)>>,
     <<ArrLine(<<Record(nextId, SevOf(nextId)), Record(nextId + 1, SevOf(nextId + 1))>>)>>,
     <<OpenLine, RecLine(nextId, SevOf(nextId)), CloseLine>>}

UsesId(lines) == \E i \in 1..Len(lines) : lines[i].kind \in {"rec", "recc"} \/ lines[i].items /= << >>

Changed ==
    /\ changes < MaxChanges
    /\ changes' = changes + 1

AppendLine(p, line) ==
    /\ Changed
    /\ Len(file[p]) < MaxLines
    /\ file' = [file EXCEPT ![p] = Append(@, line)]
    /\ nextId' = IF UsesId(<<line>>) THEN nextId + 1 ELSE nextId
    /\ UNCHANGED <<fn_vars, readable, raw_data_cache, ui_vars, refresh_interval_ms, refresh_thread, started, th>>

\* the file is shortened by its last line
Shorten(p) ==
    /\ Changed
    /\ file[p] /= << >>
    /\ file' = [file EXCEPT ![p] = SubSeq(@, 1, Len(@) - 1)]
    /\ UNCHANGED <<fn_vars, readable, nextId, raw_data_cache, ui_vars, refresh_interval_ms, refresh_thread, started, th>>

\* the file is rewritten as one JSON document
Rewrite(p, doc) ==
    /\ Changed
    /\ Len(doc) <= MaxLines
    /\ file[p] /= doc
    /\ file' = [file EXCEPT ![p] = doc]
    /\ nextId' = IF UsesId(doc) THEN nextId + 2 ELSE nextId
    /\ UNCHANGED <<fn_vars, readable, raw_data_cache, ui_vars, refresh_interval_ms, refresh_thread, started, th>>

\* the file becomes unreadable (removed, permissions) or readable again
SetReadable(p, b) ==
    /\ Changed
    /\ readable[p] /= b
    /\ readable' = [readable EXCEPT ![p] = b]
    /\ UNCHANGED <<fn_vars, file, nextId, raw_data_cache, ui_vars, refresh_interval_ms, refresh_thread, started, th>>

\* ------------------------------------------------------------ user actions
MainIdle == th[Main].pc = "idle"

\* the loop body of main() (lines 505-568) and add_file (lines 579-647): the
\* tab is created and refresh_table runs once with record_count = 0
add_file(p) ==
    /\ MainIdle
    /\ p \notin DOMAIN tabs
    /\ LET r == load_json(p, 0, FALSE)
           o == RefreshOutcome(FALSE, r, << >>, NoFilters, TRUE, FALSE, 0)
       IN  /\ raw_data_cache' = r.cache
           /\ tree' = [tree EXCEPT ![p] = o.tree]
           /\ error_label' = [error_label EXCEPT ![p] = o.label]
           /\ showerror' = [showerror EXCEPT ![p] = Raised(FALSE, o)]
           /\ tabs' = TabsAssign(tabs, p, TabEntry(o))
    /\ tab_order' = Append(tab_order, p)
    /\ tab_filters' = [tab_filters EXCEPT ![p] = NoFilters]
    /\ UNCHANGED <<fn_vars, env_vars, refresh_interval_ms, refresh_thread, started, th>>

\* periodic_refresh (lines 409-435): a new daemon thread enters run()
StartThread(t, interval_ms) ==
    [th EXCEPT ![t] = [ThreadInit("top") EXCEPT !.interval_ms = interval_ms]]

\* main() line 571
main_periodic_refresh(t) ==
    /\ MainIdle
    /\ ~started
    /\ th[t].pc = "off"
    /\ started' = TRUE
    /\ th' = StartThread(t, refresh_interval_ms)
    /\ refresh_thread' = t
    /\ UNCHANGED <<fn_vars, env_vars, raw_data_cache, ui_vars, refresh_interval_ms>>

\* set_refresh_interval (lines 391-406)
set_refresh_interval(t, interval_minutes) ==
    /\ MainIdle
    /\ started
    /\ th[t].pc = "off"
    /\ refresh_interval_ms' = interval_minutes * 60 * 1000
    /\ th' = StartThread(t, interval_minutes * 60 * 1000)
    /\ refresh_thread' = t
    /\ UNCHANGED <<fn_vars, env_vars, raw_data_cache, ui_vars, started>>

\* show_filter_dialog (lines 290-302): the filter is stored in the dict the
\* tab shares; the refresh_table call that follows is never made because
\* evaluating its argument tabs[file_path][7] raises NameError (tabs is a
\* local of main, not a global)
show_filter_dialog(p, column, new_filter) ==
    /\ MainIdle
    /\ started
    /\ p \in DOMAIN tabs
    /\ tab_filters[p][column] /= new_filter
    /\ tab_filters' = [tab_filters EXCEPT ![p][column] = new_filter]
    /\ UNCHANGED <<fn_vars, env_vars, raw_data_cache, tabs, tab_order, tree, error_label, showerror,
                   refresh_interval_ms, refresh_thread, started, th>>

\* ------------------------------------------------------- the refresh loops
\* the for statement of manual_refresh / run(): the snapshot is taken and the
\* first entry unpacked
EnterLoop(t, idle_pc) ==
    [th EXCEPT ![t] = [@ EXCEPT !.snap = Snapshot,
                                !.all = SnapPaths(Snapshot),
                                !.done = << >>,
                                !.res = NoRes,
                                !.pc = IF Snapshot = << >> THEN idle_pc ELSE "load"]]

\* manual_refresh (lines 438-452), up to the first refresh_table call
manual_refresh ==
    /\ MainIdle
    /\ started
    /\ th' = EnterLoop(Main, "idle")
    /\ UNCHANGED <<fn_vars, env_vars, raw_data_cache, ui_vars, refresh_interval_ms, refresh_thread, started>>

\* run(), line 417: a cycle of the periodic loop starts, when the thread has
\* just been started or when time.sleep (line 431) returns; with no tab the
\* thread goes straight back to sleep
CycleBegin(t) ==
    /\ t \in Periodic
    /\ th[t].pc = "top"
    /\ th' = EnterLoop(t, "top")
    /\ UNCHANGED <<fn_vars, env_vars, raw_data_cache, ui_vars, refresh_interval_ms, refresh_thread, started>>

IsAuto(t) == t /= Main

\* refresh_table up to the return of load_json (line 174)
Load(t) ==
    /\ th[t].pc = "load"
    /\ LET e == Head(th[t].snap)
           r == load_json(e.path, IF IsAuto(t) THEN e.record_count ELSE 0, IsAuto(t))
       IN  /\ raw_data_cache' = r.cache
           /\ th' = [th EXCEPT ![t] = [@ EXCEPT
                        !.pc = "finish",
                        !.done = Append(@, e.path),
                        !.stored = tabs[e.path].record_count,
                        !.res = [ok |-> r.ok, data |-> r.data, total |-> r.total]]]
    /\ UNCHANGED <<fn_vars, env_vars, ui_vars, refresh_interval_ms, refresh_thread, started>>

\* AfterFile with the failure of one file ending the cycle
AfterFile_break(t, o, rest) ==
    IF rest /= << >> /\ o.label /= "error" THEN "load"
    ELSE IF IsAuto(t) THEN "top" ELSE "idle"

\* where the loop goes after the refresh of one file, whatever its outcome
AfterFile(t, o, rest) ==
    IF rest /= << >> THEN "load"
    ELSE IF IsAuto(t) THEN "top" ELSE "idle"

\* the rest of refresh_table and the assignment to tabs[file_path] that
\* follows it in the loop (lines 425, 447)
Finish(t) ==
    /\ th[t].pc = "finish"
    /\ LET e == Head(th[t].snap)
           p == e.path
           o == RefreshOutcome(IsAuto(t), th[t].res, tree[p], tab_filters[p],
                               e.last_manual_sync, e.last_auto_sync,
                               IF IsAuto(t) THEN e.record_count ELSE 0)
       IN  /\ tree' = [tree EXCEPT ![p] = o.tree]
           /\ error_label' = [error_label EXCEPT ![p] = o.label]
           /\ showerror' = [showerror EXCEPT ![p] = Raised(IsAuto(t), o)]
           /\ tabs' = TabsAssign(tabs, p, TabEntry(o))
           /\ th' = [th EXCEPT ![t] = [@ EXCEPT
                        !.pc = AfterFile(t, o, Tail(th[t].snap)),
                        !.snap = Tail(@),
                        !.stored = 0,
                        !.res = NoRes]]
    /\ UNCHANGED <<fn_vars, env_vars, raw_data_cache, tab_order, tab_filters,
                   refresh_interval_ms, refresh_thread, started>>

\* ----------------------------------------------------------- on_row_select
\* what the raw JSON pane shows when the row with these values is selected
\* (lines 343-358): the cache entry at the row's Line number minus one, or
\* "Raw JSON data not available."
on_row_select(file_path, values) ==
    LET line_number == py_int(values[1]) - 1
    IN  IF file_path \in DOMAIN raw_data_cache /\ line_number < Len(raw_data_cache[file_path])
        THEN [available |-> TRUE, raw_json |-> raw_data_cache[file_path][line_number + 1]]
        ELSE [available |-> FALSE, raw_json |-> JDict(<< >>)]

\* -------------------------------------------------- update_countdown_timer
\* run(), lines 413-414: the periodic thread starts its countdown thread
StartCountdown(t) ==
    /\ th[t].pc /= "off"
    /\ countdown[t].pc = "off"
    /\ countdown' = [countdown EXCEPT ![t] = [pc |-> "top", used |-> 0, pos |-> 0]]
    /\ UNCHANGED <<call, env_vars, raw_data_cache, ui_vars, refresh_interval_ms,
                   refresh_thread, started, th>>

\* line 144: the for statement creates the iterator of tabs.items(), on the
\* dict itself; next_sync_time is set since main() started
CountdownBegin(t) ==
    /\ countdown[t].pc = "top"
    /\ countdown' = [countdown EXCEPT ![t] =
                        [pc |-> "iter", used |-> Cardinality(DOMAIN tabs), pos |-> 0]]
    /\ UNCHANGED <<call, env_vars, raw_data_cache, ui_vars, refresh_interval_ms,
                   refresh_thread, started, th>>

\* lines 144-159: the for statement asks the iterator for the next entry. A
\* dict that changed size since the iterator was created raises RuntimeError
\* outside the try of the loop body, which ends the thread; an exhausted
\* iterator ends the for and the thread sleeps one second; otherwise the body
\* rewrites the status text of the entry's tab, or logs when the file cannot
\* be read
CountdownNext(t) ==
    /\ countdown[t].pc = "iter"
    /\ IF Cardinality(DOMAIN tabs) /= countdown[t].used
       THEN /\ countdown' = [countdown EXCEPT ![t].pc = "dead"]
            /\ UNCHANGED error_label
       ELSE IF countdown[t].pos = countdown[t].used
       THEN /\ countdown' = [countdown EXCEPT ![t].pc = "top"]
            /\ UNCHANGED error_label
       ELSE LET file_path == tab_order[countdown[t].pos + 1]
            IN  /\ countdown' = [countdown EXCEPT ![t].pos = @ + 1]
                /\ error_label' = IF readable[file_path]
                                  THEN [error_label EXCEPT ![file_path] = "ok"]
                                  ELSE error_label
    /\ UNCHANGED <<call, env_vars, raw_data_cache, tabs, tab_order, tab_filters, tree,
                   showerror, refresh_interval_ms, refresh_thread, started, th>>

\* --------------------------------------------------------------------- Next
FilterColumns == {K_severity}
Minutes == {30}

Environment(P, lines, docs) ==
    \/ \E p \in P, line \in lines : AppendLine(p, line)
    \/ \E p \in P : Shorten(p)
    \/ \E p \in P, doc \in docs : Rewrite(p, doc)
    \/ \E p \in P, b \in BOOLEAN : SetReadable(p, b)

Loops(T) ==
    \/ \E t \in T : CycleBegin(t)
    \/ \E t \in T \cup {Main} : Load(t)
    \/ \E t \in T \cup {Main} : Finish(t)

\* one log file, the main thread and the periodic thread main() starts, in
\* every interleaving of their steps; the filters stay as add_file sets them
Next ==
    \/ Environment({"f1"}, NewLines, NewDocuments)
    \/ add_file("f1")
    \/ main_periodic_refresh("t1")
    \/ manual_refresh
    \/ Loops({"t1"})

Spec == InitFor({"f1"}) /\ [][Next]_vars

\* no periodic thread is inside a cycle
NoCycle == \A t \in Periodic : th[t].pc \in {"off", "top"}

\* the schedules of Spec in which the user acts only between the cycles of the
\* periodic thread and a cycle starts only when the main thread is idle
NextSeq ==
    \/ Environment({"f1"}, NewLines, NewDocuments)
    \/ NoCycle /\ add_file("f1")
    \/ main_periodic_refresh("t1")
    \/ NoCycle /\ \E c \in FilterColumns, f \in FilterTexts : show_filter_dialog("f1", c, f)
    \/ NoCycle /\ manual_refresh
    \/ MainIdle /\ CycleBegin("t1")
    \/ \E t \in {Main, "t1"} : Load(t)
    \/ \E t \in {Main, "t1"} : Finish(t)

SpecSeq == InitFor({"f1"}) /\ [][NextSeq]_vars

\* two log files that grow, fail and recover, and one periodic thread
NextFiles ==
    \/ \E p \in Paths, line \in {BadLine, RecLine(nextId, SevOf(nextId))} : AppendLine(p, line)
    \/ \E p \in Paths : Shorten(p)
    \/ \E p \in Paths, b \in BOOLEAN : SetReadable(p, b)
    \/ \E p \in Paths : add_file(p)
    \/ main_periodic_refresh("t1")
    \/ Loops({"t1"})

SpecFiles == InitFor(Paths) /\ [][NextFiles]_vars

\* one growing log file and every thread the interval dialog can start
NextThreads ==
    \/ AppendLine("f1", RecLine(nextId, SevOf(nextId)))
    \/ add_file("f1")
    \/ main_periodic_refresh("t1")
    \/ \E t \in Periodic, m \in Minutes : set_refresh_interval(t, m)
    \/ manual_refresh
    \/ Loops(Periodic)

SpecThreads == InitFor({"f1"}) /\ [][NextThreads]_vars

\* one log file that only grows by record lines, in the schedules without
\* overlap, with the filter dialog
NextGrow ==
    \/ AppendLine("f1", RecLine(nextId, SevOf(nextId)))
    \/ NoCycle /\ add_file("f1")
    \/ main_periodic_refresh("t1")
    \/ NoCycle /\ \E c \in FilterColumns, f \in FilterTexts : show_filter_dialog("f1", c, f)
    \/ NoCycle /\ manual_refresh
    \/ MainIdle /\ CycleBegin("t1")
    \/ \E t \in {Main, "t1"} : Load(t)
    \/ \E t \in {Main, "t1"} : Finish(t)

SpecGrow == InitFor({"f1"}) /\ [][NextGrow]_vars

\* the user's operations and both kinds of loop, over files that do not change
NextLoops ==
    \/ \E p \in Paths : add_file(p)
    \/ main_periodic_refresh("t1")
    \/ \E c \in FilterColumns, f \in FilterTexts : show_filter_dialog("f1", c, f)
    \/ manual_refresh
    \/ Loops({"t1"})
    \/ StartCountdown("t1")
    \/ CountdownBegin("t1")
    \/ CountdownNext("t1")

SpecLoops == InitFor(Paths) /\ [][NextLoops]_vars

\* ------------------------------------- flatten_dict and filter_data alone
\* the keys of the records given to flatten_dict; a key may hold the separator
Keys == {<<"a">>, <<"b">>, <<"a", ".", "b">>}
Leaves == {JInt(1)}

FreeKeys(kv) == {k \in Keys : ~HasKey(kv, k)}

\* the mappings that hold n key-value pairs, those of nested mappings counted
RECURSIVE Mappings(_)
Mappings(n) ==
    IF n = 0 THEN {<< >>}
    ELSE UNION {
           UNION { { << <<k, v>> >> \o rest :
                       k \in FreeKeys(rest),
                       v \in (IF m = 0 THEN Leaves ELSE {}) \cup {JDict(x) : x \in Mappings(m)} }
                   : rest \in Mappings(n - 1 - m) }
           : m \in 0..(n - 1) }

Records == UNION {{JDict(x) : x \in Mappings(n)} : n \in 0..MaxItems}

\* flattened records in which a column may be missing
SevItems == {<< >>} \cup {<< <<K_severity, JStr(s)>> >> : s \in Sevs}
IdItems == {<< >>} \cup {<< <<K_id, JInt(i)>> >> : i \in {1, 2}}
FlattenedRecords == {JDict(a \o b) : a \in SevItems, b \in IdItems}

\* filters = {col: '' for col in desired_columns}, then set by the dialog
FilterMaps == [Range(desired_columns) -> {<< >>, <<"I", "G">>, <<"1">>}]

FlattenCalls ==
    {[NoCall EXCEPT !.fn = "flatten_dict", !.d = r] : r \in Records}

FilterCalls ==
    {[NoCall EXCEPT !.fn = "filter_data", !.d = data, !.filters = f] :
        data \in UNION {[1..k -> FlattenedRecords] : k \in 0..MaxRecords},
        f \in FilterMaps}

InitPure ==
    /\ ProgramInit({})
    /\ \/ call \in FlattenCalls
       \/ call \in FilterCalls

program_vars == <<env_vars, raw_data_cache, ui_vars, countdown, refresh_interval_ms,
                  refresh_thread, started, th>>

call_flatten_dict ==
    /\ call.fn = "flatten_dict"
    /\ call.n = 0
    /\ call' = [call EXCEPT !.out = flatten_dict(call.d), !.n = 1]
    /\ UNCHANGED program_vars

call_filter_data ==
    /\ call.fn = "filter_data"
    /\ call.n = 0
    /\ call' = [call EXCEPT !.out = filter_data(call.d, call.filters), !.n = 1]
    /\ UNCHANGED program_vars

\* the same filters applied to what filter_data returned
call_filter_data_again ==
    /\ call.fn = "filter_data"
    /\ call.n = 1
    /\ call' = [call EXCEPT !.again = filter_data(call.out, call.filters), !.n = 2]
    /\ UNCHANGED program_vars

NextPure ==
    \/ call_flatten_dict
    \/ call_filter_data
    \/ call_filter_data_again

SpecPure == InitPure /\ [][NextPure]_vars

\* =================================================================== claims
LoadStep(t) == th[t].pc = "load" /\ th'[t].pc = "finish"
FinishStep(t) == th[t].pc = "finish" /\ th'[t].pc /= "finish"
Current(t) == Head(th[t].snap)

\* C1: in a cycle of the periodic loop every file of the cycle is attempted
\* exactly once and in order, whatever the outcome of the other files: at any
\* point of the cycle the files attempted so far followed by the files still
\* to come are the tracked files the cycle started with, and the loop is back
\* at its sleep only when all of them were attempted.
C1_EveryFileOncePerCycle ==
    \A t \in Periodic :
        LET c == th[t] IN
        /\ c.pc = "load" => c.done \o SnapPaths(c.snap) = c.all
        /\ c.pc = "finish" => c.done \o Tail(SnapPaths(c.snap)) = c.all
        /\ c.pc = "top" => c.done = c.all
        /\ \A i, j \in 1..Len(c.all) : c.all[i] = c.all[j] => i = j

\* a cycle over two files has ended in which the first file failed and the
\* second was refreshed
C1_Witness ==
    \E t \in Periodic :
        /\ th[t].pc = "top"
        /\ Len(th[t].done) = 2
        /\ error_label[th[t].done[1]] = "error"
        /\ error_label[th[t].done[2]] = "ok"
        /\ tabs[th[t].done[2]].last_auto_sync

\* the content load_json reads for the path a thread is about to load
LinesOf(p) == StripSplitLines(file[p])

Decodes(line) == IsBlank(line) \/ json_loads_line(line).ok

\* the mappings written on lines from+1 .. Len(lines), in line order
RECURSIVE RecordsAfter(_, _)
RecordsAfter(lines, from) ==
    IF from >= Len(lines) THEN << >>
    ELSE (IF lines[from + 1].kind = "rec"
          THEN <<Record(lines[from + 1].id, lines[from + 1].sev)>>
          ELSE << >>) \o RecordsAfter(lines, from + 1)

\* the load a thread at "load" is about to make is incremental
Incremental(t) == IsAuto(t) /\ Current(t).record_count > 0

\* C2: an incremental load with seen-line count k over a readable file of m
\* lines (k <= m) whose lines k+1..m are blank or valid JSON returns exactly
\* the mappings of lines k+1..m in line order and the count m, and the cache
\* afterwards is the cache before followed by those records.
C2_IncrementalCorrect ==
    [][\A t \in Periodic :
        (/\ LoadStep(t)
         /\ Incremental(t)
         /\ readable[Current(t).path]
         /\ Current(t).record_count <= Len(LinesOf(Current(t).path))
         /\ \A i \in (Current(t).record_count + 1)..Len(LinesOf(Current(t).path)) :
                Decodes(LinesOf(Current(t).path)[i]))
        => LET p == Current(t).path
               k == Current(t).record_count
           IN  /\ th'[t].res.ok
               /\ th'[t].res.data = RecordsAfter(LinesOf(p), k)
               /\ th'[t].res.total = Len(LinesOf(p))
               /\ p \in DOMAIN raw_data_cache
               /\ IsPrefix(raw_data_cache[p], raw_data_cache'[p])
               /\ raw_data_cache'[p] = raw_data_cache[p] \o RecordsAfter(LinesOf(p), k)]_vars

\* an incremental load has just returned the record of an appended line
C2_Witness ==
    \E t \in Periodic :
        /\ th[t].pc = "finish"
        /\ Current(t).record_count > 0
        /\ th[t].res.ok
        /\ th[t].res.data /= << >>
        /\ th[t].res.total > Current(t).record_count
        /\ Len(raw_data_cache[Current(t).path]) > Len(th[t].res.data)

\* C3: every load made by an automatic refresh, whatever the seen-line count
\* it is given (0 included), leaves the cache of the path a prefix of what it
\* becomes: entries are only ever appended.
C3_AutomaticLoadAppends ==
    [][\A t \in Periodic :
        (LoadStep(t) /\ Current(t).path \in DOMAIN raw_data_cache)
        => IsPrefix(raw_data_cache[Current(t).path], raw_data_cache'[Current(t).path])]_vars

\* the total line count the most recent successful load of p reported is the
\* one the load step leaves in its result
\* C4: after any load that succeeds, the cached record list of the path is no
\* longer than the total line count that load reports.
C4_CacheWithinLineCount ==
    [][/\ \A t \in Threads :
            (LoadStep(t) /\ th'[t].res.ok)
            => Len(raw_data_cache'[Current(t).path]) <= th'[t].res.total
       /\ \A p \in Paths :
            (p \notin DOMAIN tabs /\ p \in DOMAIN tabs' /\ p \in DOMAIN raw_data_cache')
            => Len(raw_data_cache'[p]) <= Len(LinesOf(p))]_vars

\* the column of a row that shows the id of its record
IdColumn == 1 + CHOOSE i \in 1..Len(desired_columns) : desired_columns[i] = K_id

NoRowTwice(view) ==
    \A i, j \in 1..Len(view) : view[i][IdColumn] = view[j][IdColumn] => i = j

\* C5: an automatic refresh keeps the rows of the view as a prefix of the view
\* it leaves, and no record is displayed twice.
C5_AutomaticRefreshAppendsOnce ==
    [][\A t \in Periodic :
        FinishStep(t)
        => /\ IsPrefix(tree[Current(t).path], tree'[Current(t).path])
           /\ NoRowTwice(tree'[Current(t).path])]_vars

\* the rows a full refresh is to display for the records it parsed
FullView(data, flt) ==
    Rows(filter_data([i \in 1..Len(data) |-> flatten_dict(data[i])], flt), 1)

\* C6: a manual refresh whose parse succeeds stores the file's new total line
\* count as the seen-line counter and leaves in the view exactly the filtered
\* rows of the newly parsed records, also when there are none.
C6_ManualRefreshReplaces ==
    [][(FinishStep(Main) /\ th[Main].res.ok)
        => LET p == Current(Main).path
           IN  /\ tabs'[p].record_count = th[Main].res.total
               /\ tree'[p] = FullView(th[Main].res.data, tab_filters[p])]_vars

\* C7: after any number of interval changes exactly one periodic loop runs,
\* and a refresh is only ever made by the loop that was started last.
C7_OneLoopAfterIntervalChange ==
    [][/\ started' => Cardinality({t \in Periodic : th'[t].pc /= "off"}) = 1
       /\ \A t \in Periodic : LoadStep(t) => t = refresh_thread]_vars

\* thread t is inside refresh_table for path p: load_json has returned and
\* the rows and the entry of tabs are still to be written
InRefresh(t, p) == th[t].pc = "finish" /\ Current(t).path = p

NoRecordTwice(records) ==
    \A i, j \in 1..Len(records) : records[i] = records[j] => i = j

\* C8: two refreshes of the same path never overlap, and no record is held
\* twice in the cache of a path.
C8_SingleFlight ==
    /\ \A p \in Paths : \A t, u \in Threads :
          (InRefresh(t, p) /\ InRefresh(u, p)) => t = u
    /\ \A p \in DOMAIN raw_data_cache : NoRecordTwice(raw_data_cache[p])

\* the load the thread is about to make reads a line that is not JSON
MalformedAhead(t) ==
    /\ readable[Current(t).path]
    /\ \E i \in (Current(t).record_count + 1)..Len(LinesOf(Current(t).path)) :
          ~Decodes(LinesOf(Current(t).path)[i])

\* C9: an incremental load that reads a malformed line fails and changes
\* nothing: the load leaves the cache as it was, and the refresh it belongs to
\* reports the failure, leaves the rows of the view as they were and leaves
\* in tabs the seen-line count that was stored there when the refresh began.
C9_MalformedIncrementalChangesNothing ==
    [][\A t \in Periodic :
        /\ (LoadStep(t) /\ Incremental(t) /\ MalformedAhead(t))
           => (~th'[t].res.ok /\ raw_data_cache' = raw_data_cache)
        /\ (FinishStep(t) /\ Current(t).record_count > 0 /\ ~th[t].res.ok)
           => LET p == Current(t).path
              IN  /\ tree'[p] = tree[p]
                  /\ error_label'[p] = "error"
                  /\ tabs'[p].record_count = th[t].stored]_vars

\* a full load of p reads content that is not one JSON document and holds a
\* non-empty line that is not valid JSON
MalformedJsonLines(p) ==
    /\ readable[p]
    /\ ~json_loads_content(LinesOf(p)).ok
    /\ \E i \in 1..Len(LinesOf(p)) : ~Decodes(LinesOf(p)[i])

\* C10: a full load (manual refresh, first load of a tab, or automatic refresh
\* with seen-line count 0) of such content fails as a whole: no record is
\* returned and the cache is left as it was.
C10_MalformedLineFailsClosed ==
    [][/\ \A t \in Threads :
            (LoadStep(t) /\ ~Incremental(t) /\ MalformedJsonLines(Current(t).path))
            => /\ ~th'[t].res.ok
               /\ th'[t].res.data = << >>
               /\ raw_data_cache' = raw_data_cache
       /\ \A p \in Paths :
            (p \notin DOMAIN tabs /\ p \in DOMAIN tabs' /\ MalformedJsonLines(p))
            => /\ error_label'[p] = "error"
               /\ tree'[p] = << >>
               /\ tabs'[p].record_count = 0
               /\ raw_data_cache' = raw_data_cache]_vars

\* a manual refresh has just failed on a file in which a valid record line
\* precedes a malformed line, and the records cached before are still there
C10_Witness ==
    /\ th[Main].pc = "finish"
    /\ ~th[Main].res.ok
    /\ LET p == Current(Main).path
       IN  /\ MalformedJsonLines(p)
           /\ \E i, j \in 1..Len(LinesOf(p)) :
                 i < j /\ LinesOf(p)[i].kind = "rec" /\ LinesOf(p)[j].kind = "bad"
           /\ p \in DOMAIN raw_data_cache
           /\ raw_data_cache[p] /= << >>
\* C11: a refresh that fails raises a modal notification exactly when it is a
\* manual refresh: a failed manual refresh leaves the messagebox of the path
\* raised, a failed automatic refresh leaves the error status text and raises
\* no messagebox, and no refresh running with is_auto_refresh=True ever raises
\* one.
C11_ModalOnlyForManual ==
    [][/\ (FinishStep(Main) /\ ~th[Main].res.ok)
            => /\ error_label'[Current(Main).path] = "error"
               /\ showerror'[Current(Main).path] = "manual"
       /\ \A t \in Periodic :
            FinishStep(t)
            => /\ showerror'[Current(t).path] = "none"
               /\ ~th[t].res.ok => error_label'[Current(t).path] = "error"]_vars
\* C12: an automatic (incremental) load whose seen-line count N, 0 included,
\* equals the current line count of a readable file does not fail, returns no
\* record, returns the count N and leaves the cache as it was.
C12_ZeroNewLinesTolerated ==
    [][\A t \in Periodic :
        (/\ LoadStep(t)
         /\ readable[Current(t).path]
         /\ Current(t).record_count = Len(LinesOf(Current(t).path)))
        => /\ th'[t].res.ok
           /\ th'[t].res.data = << >>
           /\ th'[t].res.total = Current(t).record_count
           /\ raw_data_cache' = raw_data_cache]_vars
\* the text filter_data compares for a column: str() of the value, the empty
\* string when the record has no such column
ValueText(item, col) ==
    IF \E i \in 1..Len(item.v) : item.v[i][1] = col
    THEN py_str(item.v[CHOOSE i \in 1..Len(item.v) : item.v[i][1] = col][2])
    ELSE << >>

\* sub occurs in text, letters compared without regard to case
OccursIgnoringCase(sub, text) ==
    \E off \in 0..(Len(text) - Len(sub)) :
        \A i \in 1..Len(sub) : LowerChar(sub[i]) = LowerChar(text[off + i])

Passes(item, filters) ==
    \A col \in DOMAIN filters :
        filters[col] = << >> \/ OccursIgnoringCase(filters[col], ValueText(item, col))

\* C13: filter_data returns, in input order, exactly the records that pass
\* every column with a non-empty filter (case-insensitive substring of the
\* value's text, a missing column being the empty text, an empty filter no
\* constraint), and filtering the result again with the same filters gives
\* the same result.
C13_FilterExactAndIdempotent ==
    (call.fn = "filter_data" /\ call.n >= 1)
    => /\ call.out = SelectSeq(call.d, LAMBDA item : Passes(item, call.filters))
       /\ call.n = 2 => call.again = call.out

\* filter_data has been applied twice to two records of which the first lacks
\* the filtered column and is dropped and the second matches in another case
C13_Witness ==
    /\ call.fn = "filter_data"
    /\ call.n = 2
    /\ call.filters[K_severity] = <<"I", "G">>
    /\ Len(call.d) = 2
    /\ ~HasKey(call.d[1].v, K_severity)
    /\ call.out = <<call.d[2]>>

\* the number of leaf paths of a record: the paths of keys that end at a
\* value that is not a mapping
RECURSIVE LeafPaths(_)
LeafPaths(kv) ==
    IF kv = << >> THEN 0
    ELSE (IF isinstance_dict(Head(kv)[2]) THEN LeafPaths(Head(kv)[2].v) ELSE 1)
         + LeafPaths(Tail(kv))

\* C14: for a record without list values, flatten_dict returns a mapping
\* none of whose values is a mapping and that has as many keys as the record
\* has leaf paths.
C14_FlattenInvariant ==
    (call.fn = "flatten_dict" /\ call.n = 1)
    => /\ \A i \in 1..Len(call.out.v) : ~isinstance_dict(call.out.v[i][2])
       /\ Len(call.out.v) = LeafPaths(call.d.v)
\* the content is one JSON array of mappings: written on one line, or one
\* element per line between the brackets
ArrayOfMappings(ls) ==
    LET nb == NonBlank(ls) IN
    \/ /\ Len(nb) = 1
       /\ nb[1].kind = "arr"
       /\ \A i \in 1..Len(nb[1].items) : nb[1].items[i].t = "dict"
    \/ /\ Len(nb) >= 2
       /\ nb[1].kind = "open"
       /\ nb[Len(nb)].kind = "close"
       /\ \A i \in 2..(Len(nb) - 1) :
             nb[i].kind = (IF i < Len(nb) - 1 THEN "recc" ELSE "rec")

\* the mappings of such an array, in order
ArrayMappings(ls) ==
    LET nb == NonBlank(ls) IN
    IF Len(nb) = 1 THEN nb[1].items
    ELSE [i \in 1..(Len(nb) - 2) |-> Record(nb[i + 1].id, nb[i + 1].sev)]

\* the content is JSON Lines: every line that is not blank is one mapping
OneMappingPerLine(ls) == \A i \in 1..Len(ls) : ls[i].kind \in {"rec", "blank"}

\* the N mappings the file of p holds, in file order
MappingsOf(p) ==
    IF ArrayOfMappings(LinesOf(p)) THEN ArrayMappings(LinesOf(p))
    ELSE RecordsAfter(LinesOf(p), 0)

\* a full parse of p (first load of a tab, manual refresh, automatic refresh
\* with seen-line count 0) returns the mappings of the file in file order and
\* the line count of the content, and caches the list
FullParseRoundTrip(holding) ==
    /\ \A t \in Threads :
          (LoadStep(t) /\ ~Incremental(t) /\ readable[Current(t).path] /\ Current(t).path \in holding)
          => LET p == Current(t).path
             IN  /\ th'[t].res.ok
                 /\ th'[t].res.data = MappingsOf(p)
                 /\ th'[t].res.total = Len(LinesOf(p))
                 /\ p \in DOMAIN raw_data_cache'
                 /\ raw_data_cache'[p] = MappingsOf(p)
    /\ \A p \in Paths :
          (p \notin DOMAIN tabs /\ p \in DOMAIN tabs' /\ readable[p] /\ p \in holding)
          => /\ p \in DOMAIN raw_data_cache'
             /\ raw_data_cache'[p] = MappingsOf(p)

\* the paths whose file holds N >= 0 mappings in one of the two forms
HoldsMappings ==
    {p \in Paths : ArrayOfMappings(LinesOf(p)) \/ OneMappingPerLine(LinesOf(p))}

\* those of them that are an array or hold at least one mapping
HoldsSomeMapping ==
    {p \in HoldsMappings : ArrayOfMappings(LinesOf(p)) \/ RecordsAfter(LinesOf(p), 0) /= << >>}

\* C15 as stated: a full parse of a file that holds N mappings, as one JSON
\* array or as one mapping per line, for any N, returns exactly those N
\* records in file order with total_lines the line count, and caches them.
C15_FullParseAnyN == [][FullParseRoundTrip(HoldsMappings)]_vars

\* C15 as amended: the same for a JSON array of N >= 0 mappings and for a
\* JSON Lines file of N >= 1 mappings, total_lines being the number of lines
\* of the content with leading and trailing whitespace stripped.
C15_FullParseRoundTrip == [][FullParseRoundTrip(HoldsSomeMapping)]_vars

\* a manual refresh has parsed a file of two mappings, one per line, by the
\* JSON Lines fallback and cached them
C15_Witness ==
    /\ th[Main].pc = "finish"
    /\ th[Main].res.ok
    /\ LET p == Current(Main).path
       IN  /\ ~json_loads_content(LinesOf(p)).ok
           /\ OneMappingPerLine(LinesOf(p))
           /\ Len(th[Main].res.data) >= 2
           /\ raw_data_cache[p] = th[Main].res.data
\* C16: whatever the user has done so far, the entry of every tracked path
\* holds all its fields, neither the periodic loop nor the countdown loop of
\* a started thread has ended, and a cycle of the periodic loop covers the
\* files that were tracked when it began.
C16_LoopsRunForever ==
    /\ \A p \in DOMAIN tabs :
          DOMAIN tabs[p] = {"last_manual_sync", "last_auto_sync", "record_count"}
    /\ \A t \in Periodic :
          /\ th[t].pc \in {"off", "top", "load", "finish"}
          /\ countdown[t].pc \in {"off", "top", "iter"}
          /\ th[t].pc \in {"load", "finish"} => IsPrefix(th[t].all, tab_order)
\* C17: whenever no refresh of the path is under way, selecting any row of
\* its view shows a cached record, and the row's values are the ones derived
\* from that record for the row's Line number.
C17_RowShowsItsRecord ==
    \A p \in DOMAIN tabs :
        (\A t \in Threads : ~InRefresh(t, p))
        => \A i \in 1..Len(tree[p]) :
              LET shown == on_row_select(p, tree[p][i])
              IN  /\ shown.available
                  /\ tree[p][i] = RowValues(py_int(tree[p][i][1]), flatten_dict(shown.raw_json))
====
